---- MODULE Spec2Model ----
(***************************************************************************)
(* The region index of the placement driver: regionMap, the region tree    *)
(* and the composite RegionsInfo of server/core/region.go.                 *)
(*                                                                         *)
(* Keys are byte strings compared with bytes.Compare.  A key is modelled   *)
(* by its rank in that order: 0 is the empty string (the least key), and   *)
(* 1..MaxKey are non-empty keys in ascending byte order.  As an endKey the *)
(* empty string means "unbounded above".                                   *)
(***************************************************************************)
EXTENDS Integers, Sequences, FiniteSets, TLC

\* ---------------------------------------------------------------- bounds
MaxId == 2
MaxKey == 2
NumStores == 2
MaxEpoch == 1
MaxSize == 2
MaxApproxKeys == 1
MaxOps == 3

Ids == 1 .. MaxId
Keys == 0 .. MaxKey
Stores == 1 .. NumStores
Epochs == 0 .. MaxEpoch

\* ------------------------------------------------------------ RegionInfo

\* metapb.Peer: the replica of a region on one store.
Peer(regionId, s, learner) == [id |-> regionId * 10 + s, storeId |-> s, isLearner |-> learner]

\* classifyVoterAndLearner: split Peers into Voters and Learners.
classifyVoterAndLearner(r) ==
    [r EXCEPT !.learners = {p \in r.peers : p.isLearner},
              !.voters = {p \in r.peers : ~p.isLearner}]

\* NewRegionInfo / RegionFromHeartbeat: a snapshot with classified peers.
\* leader and pendingPeers are sets of peers; an empty leader is a nil Leader.
NewRegionInfo(id, sk, ek, ep, peers, leader, pending, size, nkeys) ==
    classifyVoterAndLearner(
        [id |-> id, startKey |-> sk, endKey |-> ek, epoch |-> ep,
         peers |-> peers, leader |-> leader, pendingPeers |-> pending,
         learners |-> {}, voters |-> {},
         ApproximateSize |-> size, ApproximateKeys |-> nkeys])

\* RegionInfo.Clone: copies the meta, the leader, the pending peers and the
\* counters, then classifies the copied peers again.
Clone(r) ==
    classifyVoterAndLearner(
        [id |-> r.id, startKey |-> r.startKey, endKey |-> r.endKey, epoch |-> r.epoch,
         peers |-> r.peers, leader |-> r.leader, pendingPeers |-> r.pendingPeers,
         learners |-> {}, voters |-> {},
         ApproximateSize |-> r.ApproximateSize, ApproximateKeys |-> r.ApproximateKeys])

\* The metapb.Region a RegionInfo embeds, as the tree keeps it.
Meta(r) == [id |-> r.id, startKey |-> r.startKey, endKey |-> r.endKey, epoch |-> r.epoch]

\* The peer sets of one region id: at least one peer, at most one peer per
\* store, each a voter or a learner.
PeerSets(id) ==
    {{Peer(id, s, role[s] = "learner") : s \in {t \in Stores : role[t] # "none"}} :
        role \in [Stores -> {"none", "voter", "learner"}]} \ {{}}

\* The nil leader, or one of the voters.
Leaders(peers) == {{}} \cup {{p} : p \in {q \in peers : ~q.isLearner}}

\* The key ranges [startKey, endKey) that are not empty.
Ranges == {k \in Keys \X Keys : k[2] = 0 \/ k[1] < k[2]}

\* The base snapshot of a region id: the ids split the key space in order,
\* every store holds a voter and the leader is the voter of one store.
BaseRange(id) == <<id - 1, IF id = MaxId THEN 0 ELSE id>>

BasePeers(id) == {Peer(id, s, FALSE) : s \in Stores}

BaseLeader(id) == {Peer(id, ((id - 1) % NumStores) + 1, FALSE)}

\* The well-formed regions handed to the index (a non-empty key range, the
\* leader, if any, a voter, the pending peers among the peers): for each id,
\* the snapshots that differ from its base snapshot in the key range, in the
\* epoch, in the peers and leader, in the pending peers, or in the counters.
RegionArgs ==
    UNION {
        {NewRegionInfo(id, rg[1], rg[2], 0, BasePeers(id), BaseLeader(id), {}, 1, 0) :
            rg \in Ranges}
        \cup
        {NewRegionInfo(id, BaseRange(id)[1], BaseRange(id)[2], ep, BasePeers(id), BaseLeader(id), {}, 1, 0) :
            ep \in Epochs}
        \cup
        UNION {{NewRegionInfo(id, BaseRange(id)[1], BaseRange(id)[2], 0, ps, ld, {}, 1, 0) :
                    ld \in Leaders(ps)} : ps \in PeerSets(id)}
        \cup
        UNION {{NewRegionInfo(id, BaseRange(id)[1], BaseRange(id)[2], 0, ps, ld, {p}, 1, 0) :
                    ld \in {{}, BaseLeader(id)} \cap Leaders(ps), p \in ps} :
               ps \in {BasePeers(id)} \cup {x \in PeerSets(id) : \A q \in x : q.isLearner}}
        \cup
        {NewRegionInfo(id, BaseRange(id)[1], BaseRange(id)[2], 0, BasePeers(id), BaseLeader(id), {}, sz, nk) :
            sz \in 1 .. MaxSize, nk \in 0 .. MaxApproxKeys}
        : id \in Ids}

\* ------------------------------------------------------------- regionMap

newRegionMap == [m |-> <<>>, ids |-> <<>>, totalSize |-> 0, totalKeys |-> 0]

MapLen(rm) == Cardinality(DOMAIN rm.m)

\* Put that adds the new counters without taking off those of the snapshot
\* it replaces.
MapPut_NoDelta(rm, region) ==
    IF region.id \in DOMAIN rm.m
    THEN [rm EXCEPT
            !.totalSize = @ + region.ApproximateSize,
            !.totalKeys = @ + region.ApproximateKeys,
            !.m[region.id].region = region]
    ELSE [m |-> [i \in DOMAIN rm.m \cup {region.id} |->
                    IF i = region.id THEN [region |-> region, pos |-> Len(rm.ids)]
                    ELSE rm.m[i]],
          ids |-> Append(rm.ids, region.id),
          totalSize |-> rm.totalSize + region.ApproximateSize,
          totalKeys |-> rm.totalKeys + region.ApproximateKeys]

MapPut(rm, region) ==
    IF region.id \in DOMAIN rm.m
    THEN [rm EXCEPT
            !.totalSize = @ + region.ApproximateSize - rm.m[region.id].region.ApproximateSize,
            !.totalKeys = @ + region.ApproximateKeys - rm.m[region.id].region.ApproximateKeys,
            !.m[region.id].region = region]
    ELSE [m |-> [i \in DOMAIN rm.m \cup {region.id} |->
                    IF i = region.id THEN [region |-> region, pos |-> Len(rm.ids)]
                    ELSE rm.m[i]],
          ids |-> Append(rm.ids, region.id),
          totalSize |-> rm.totalSize + region.ApproximateSize,
          totalKeys |-> rm.totalKeys + region.ApproximateKeys]

\* Delete that cuts the last id off ids without moving it to the place of
\* the deleted one.
MapDelete_NoSwap(rm, id) ==
    IF id \in DOMAIN rm.m
    THEN [m |-> [i \in DOMAIN rm.m \ {id} |-> rm.m[i]],
          ids |-> SubSeq(rm.ids, 1, MapLen(rm) - 1),
          totalSize |-> rm.totalSize - rm.m[id].region.ApproximateSize,
          totalKeys |-> rm.totalKeys - rm.m[id].region.ApproximateKeys]
    ELSE rm

MapDelete(rm, id) ==
    IF id \in DOMAIN rm.m
    THEN LET old == rm.m[id]
             len == MapLen(rm)
             lastId == rm.ids[len]
             m1 == [rm.m EXCEPT ![lastId].pos = old.pos]
             ids1 == [rm.ids EXCEPT ![old.pos + 1] = m1[lastId].region.id]
         IN [m |-> [i \in DOMAIN m1 \ {id} |-> m1[i]],
             ids |-> SubSeq(ids1, 1, len - 1),
             totalSize |-> rm.totalSize - old.region.ApproximateSize,
             totalKeys |-> rm.totalKeys - old.region.ApproximateKeys]
    ELSE rm

\* regionMap.Get: the stored snapshot, as a set (empty when absent).
MapGet(rm, id) == IF id \in DOMAIN rm.m THEN {rm.m[id].region} ELSE {}

MapTotalSize(rm) == IF MapLen(rm) = 0 THEN 0 ELSE rm.totalSize

\* ------------------------------------------------------------ regionTree

\* k lies before the end key e, an empty end key being unbounded.
BeforeEnd(k, e) == e = 0 \/ k < e

\* Strict intersection of two half-open key ranges.
Overlap(a, b) == BeforeEnd(a.startKey, b.endKey) /\ BeforeEnd(b.startKey, a.endKey)

newRegionTree == {}

\* The items of a set of tree items in ascending startKey order.
RECURSIVE InKeyOrder(_)
InKeyOrder(items) ==
    IF items = {} THEN <<>>
    ELSE LET first == CHOOSE x \in items : \A y \in items : x.startKey <= y.startKey
         IN <<first>> \o InKeyOrder(items \ {first})

\* regionTree.update: delete every stored range that overlaps the new one,
\* insert the new one, return the deleted items.
TreeUpdate(tree, meta) ==
    LET over == {it \in tree : Overlap(it, meta)}
    IN [tree |-> (tree \ over) \cup {meta}, overlaps |-> InKeyOrder(over)]

\* regionTree.remove: delete the item keyed by meta.startKey only when it has
\* meta's id and epoch.
TreeRemove(tree, meta) ==
    {it \in tree : ~(it.startKey = meta.startKey /\ it.id = meta.id /\ it.epoch = meta.epoch)}

\* regionTree.search: the items whose range contains key k (at most one).
TreeSearch(tree, k) == {it \in tree : it.startKey <= k /\ BeforeEnd(k, it.endKey)}

TreeLen(tree) == Cardinality(tree)

\* regionTree.scanRange: the items whose startKey is at or after startKey, in
\* ascending order; the caller's visitor decides where the walk stops.
TreeScanRange(tree, startKey) == InKeyOrder({it \in tree : it.startKey >= startKey})

\* regionTree.getAdjacentRegions: the items with the next smaller and the next
\* larger startKey, each a set that is empty when there is none.  The tree
\* does not compare end keys.
TreeAdjacent(tree, meta) ==
    LET below == {it \in tree : it.startKey < meta.startKey}
        above == {it \in tree : it.startKey > meta.startKey}
    IN [prev |-> {it \in below : \A o \in below : o.startKey <= it.startKey},
        next |-> {it \in above : \A o \in above : it.startKey <= o.startKey}]

\* ----------------------------------------------------------- RegionsInfo

\* A per-store collection map[uint64]*regionMap is a function whose domain
\* holds the stores whose map was created; any other store reads as nil.

\* r.<bucket>[storeID].Delete(id): a no-op on a nil map.
StoreDelete(bucket, stores, id) ==
    [s \in DOMAIN bucket |-> IF s \in stores THEN MapDelete(bucket[s], id) ELSE bucket[s]]

\* The map of every store in stores is created on demand, then Put.
StorePut(bucket, stores, region) ==
    [s \in DOMAIN bucket \cup stores |->
        IF s \in stores
        THEN MapPut(IF s \in DOMAIN bucket THEN bucket[s] ELSE newRegionMap, region)
        ELSE bucket[s]]

StoreLen(bucket, s) == IF s \in DOMAIN bucket THEN MapLen(bucket[s]) ELSE 0

StoreGet(bucket, s, id) == IF s \in DOMAIN bucket THEN MapGet(bucket[s], id) ELSE {}

NewRegionsInfo ==
    [tree |-> newRegionTree, regions |-> newRegionMap,
     leaders |-> <<>>, followers |-> <<>>, learners |-> <<>>, pendingPeers |-> <<>>,
     panicked |-> FALSE]

\* RegionsInfo.GetRegion: a clone of the stored snapshot, or absent.
GetRegion(x, id) == {Clone(r) : r \in MapGet(x.regions, id)}

RemoveRegion(x, region) ==
    LET stores == {p.storeId : p \in region.peers}
    IN [x EXCEPT !.tree = TreeRemove(@, Meta(region)),
                 !.regions = MapDelete(@, region.id),
                 !.leaders = StoreDelete(@, stores, region.id),
                 !.followers = StoreDelete(@, stores, region.id),
                 !.learners = StoreDelete(@, stores, region.id),
                 !.pendingPeers = StoreDelete(@, stores, region.id)]

\* The loop of AddRegion over the overlaps: RemoveRegion(GetRegion(item.Id)).
\* GetRegion returns nil for an id the global map does not hold, and
\* RemoveRegion dereferences it: the call panics there.
RECURSIVE RemoveOverlaps(_, _)
RemoveOverlaps(x, overlaps) ==
    IF overlaps = <<>> THEN x
    ELSE LET got == GetRegion(x, Head(overlaps).id)
         IN IF got = {} THEN [x EXCEPT !.panicked = TRUE]
            ELSE RemoveOverlaps(RemoveRegion(x, CHOOSE g \in got : TRUE), Tail(overlaps))

\* The part of AddRegion after the overlaps are removed.
PutRegion(x, region) ==
    LET x1 == [x EXCEPT !.regions = MapPut(@, region)]
    IN IF region.leader = {} THEN x1
       ELSE LET isLeader(p) == \E l \in region.leader : p.id = l.id
            IN [x1 EXCEPT
                  !.leaders = StorePut(@, {p.storeId : p \in {q \in region.voters : isLeader(q)}}, region),
                  !.followers = StorePut(@, {p.storeId : p \in {q \in region.voters : ~isLeader(q)}}, region),
                  !.learners = StorePut(@, {p.storeId : p \in region.learners}, region),
                  !.pendingPeers = StorePut(@, {p.storeId : p \in region.pendingPeers}, region)]

\* RegionsInfo.AddRegion: the index after the call and the overlaps returned.
AddRegion(x, region) ==
    LET u == TreeUpdate(x.tree, Meta(region))
        x1 == RemoveOverlaps([x EXCEPT !.tree = u.tree], u.overlaps)
    IN [idx |-> IF x1.panicked THEN x1 ELSE PutRegion(x1, region),
        ret |-> u.overlaps]

\* RegionsInfo.SetRegion.
SetRegion(x, region) ==
    LET origin == MapGet(x.regions, region.id)
        x1 == IF origin # {} THEN RemoveRegion(x, CHOOSE o \in origin : TRUE) ELSE x
    IN AddRegion(x1, region)

Length(x) == MapLen(x.regions)

TreeLength(x) == TreeLen(x.tree)

\* RegionsInfo.SearchRegion.
SearchRegion(x, k) == UNION {GetRegion(x, it.id) : it \in TreeSearch(x.tree, k)}

GetStoreLeaderCount(x, s) == StoreLen(x.leaders, s)

GetStoreFollowerCount(x, s) == StoreLen(x.followers, s)

GetStoreLearnerCount(x, s) == StoreLen(x.learners, s)

GetStorePendingPeerCount(x, s) == StoreLen(x.pendingPeers, s)

\* ------------------------------------------------------ the query surface

\* What a query hands to its caller is a pointer to a RegionInfo: the value
\* it points to, and whether it points to the object the index stores
\* (stored) or to a copy made by Clone.  A nil pointer is the empty set.
Cloned(rs) == {[val |-> r, stored |-> FALSE] : r \in rs}

Handed(rs) == {[val |-> r, stored |-> TRUE] : r \in rs}

\* RegionsInfo.GetRegions: a clone of every region of the global map (in the
\* order of the ids here, Go's map iteration order being unspecified).
GetRegions(x) == [i \in DOMAIN x.regions.ids |-> Cloned({Clone(x.regions.m[x.regions.ids[i]].region)})]

\* The visitor of ScanRange: append GetRegion(item.Id), go on while
\* len(res) < limit.
RECURSIVE ScanVisit(_, _, _, _)
ScanVisit(x, items, res, limit) ==
    IF items = <<>> THEN res
    ELSE LET res1 == Append(res, Cloned(GetRegion(x, Head(items).id)))
         IN IF Len(res1) < limit THEN ScanVisit(x, Tail(items), res1, limit) ELSE res1

\* RegionsInfo.ScanRange.
ScanRange(x, startKey, limit) == ScanVisit(x, TreeScanRange(x.tree, startKey), <<>>, limit)

\* RegionsInfo.GetAdjacentRegions: the neighbours the tree names, each kept
\* only when its end of the range meets region's.
GetAdjacentRegions(x, region) ==
    LET adj == TreeAdjacent(x.tree, Meta(region))
    IN [prev |-> UNION {Cloned(GetRegion(x, it.id)) : it \in {p \in adj.prev : p.endKey = region.startKey}},
        next |-> UNION {Cloned(GetRegion(x, it.id)) : it \in {n \in adj.next : region.endKey = n.startKey}}]

\* A nil *regionMap, as r.leaders[storeID] is for a store that has none.
nilRegionMap == [m |-> <<>>, ids |-> <<>>, totalSize |-> 0, totalKeys |-> 0, isNil |-> TRUE]

StoreMap(bucket, s) == IF s \in DOMAIN bucket THEN bucket[s] ELSE nilRegionMap

\* The size getters: TotalSize of the store's map, nil for a store that has
\* none.
GetStoreLeaderRegionSize(x, s) == MapTotalSize(StoreMap(x.leaders, s))

GetStoreFollowerRegionSize(x, s) == MapTotalSize(StoreMap(x.followers, s))

GetStoreLearnerRegionSize(x, s) == MapTotalSize(StoreMap(x.learners, s))

\* GetStoreRegionSize that leaves the learners out.
GetStoreRegionSize_NoLearners(x, s) ==
    GetStoreLeaderRegionSize(x, s) + GetStoreFollowerRegionSize(x, s)

GetStoreRegionSize(x, s) ==
    GetStoreLeaderRegionSize(x, s) + GetStoreFollowerRegionSize(x, s)
        + GetStoreLearnerRegionSize(x, s)

GetStoreRegionCount(x, s) ==
    GetStoreLeaderCount(x, s) + GetStoreFollowerCount(x, s) + GetStoreLearnerCount(x, s)

\* RandomRegion that always draws index 0.
RandomRegion_First(mp) ==
    IF MapLen(mp) = 0 THEN {{}} ELSE {MapGet(mp, mp.ids[1])}

\* regionMap.RandomRegion: nil when Len() is 0, else Get(ids[rand.Intn(Len())]);
\* the set of the results the random draw can give.
RandomRegion(mp) ==
    IF MapLen(mp) = 0 THEN {{}}
    ELSE {MapGet(mp, mp.ids[i + 1]) : i \in 0 .. MapLen(mp) - 1}

\* HealthRegion: no down peer, no pending peer, no learner (a snapshot of the
\* model carries no down peers).
HealthRegion(region) == region.pendingPeers = {} /\ region.learners = {}

\* The RegionOption named opt applied to region.
Select(opt, region) == IF opt = "HealthRegion" THEN HealthRegion(region) ELSE TRUE

\* The option lists a caller passes.
OptLists == {<<>>, <<"HealthRegion">>}

randomRegionMaxRetry == 10

\* randRegion from its i-th round on: the results it can return, each with
\* the number of samples drawn.  A round returns the sample when it is nil or
\* every option selects it, and goes to the next round otherwise.
RECURSIVE randRegionFrom(_, _, _)
randRegionFrom(mp, opts, i) ==
    IF i >= randomRegionMaxRetry THEN {[region |-> {}, samples |-> i]}
    ELSE LET selected(sample) == \A k \in DOMAIN opts : \A r \in sample : Select(opts[k], r)
             returned == {sample \in RandomRegion(mp) : selected(sample)}
         IN {[region |-> sample, samples |-> i + 1] : sample \in returned}
            \cup (IF returned # RandomRegion(mp) THEN randRegionFrom(mp, opts, i + 1) ELSE {})

randRegion(mp, opts) == randRegionFrom(mp, opts, 0)

\* RegionsInfo.RandRegion, RandLeaderRegion, RandFollowerRegion.
RandRegion(x, opts) == randRegion(x.regions, opts)

RandLeaderRegion(x, s, opts) == randRegion(StoreMap(x.leaders, s), opts)

RandFollowerRegion(x, s, opts) == randRegion(StoreMap(x.followers, s), opts)

\* ------------------------------------------------------------ the system

VARIABLES
    index,   \* the RegionsInfo
    rm,      \* a regionMap used on its own
    op,      \* the name of the last call
    ret,     \* the overlaps the last SetRegion or AddRegion returned
    nops,    \* the number of calls that changed the index
    got,     \* what the last query returned to its caller
    writer,  \* the goroutine that calls SetRegion: its place in the call
    reader,  \* a goroutine that queries the index: its place and what it read
    cache,   \* the store ids in the TTL cache of the cacheFilter
    counter, \* filterCounter: the count of each label triple
    last     \* the filter call at hand: its arguments and what it last returned

indexVars == <<index, rm, op, ret, nops, got>>

concVars == <<writer, reader>>

filterVars == <<cache, counter, last>>

vars == <<index, rm, op, ret, nops, got, writer, reader, cache, counter, last>>

\* No query result is held.
NoResult == [arg |-> <<>>, res |-> <<>>]

\* The writer is in no call; the reader holds nothing.
WriterIdle == [pc |-> "idle", arg |-> {}, pre |-> NewRegionsInfo]

ReaderIdle == [pc |-> "idle", key |-> 0, view |-> <<>>]

\* The empty index, no call made.
InitIndex ==
    /\ index = NewRegionsInfo
    /\ rm = newRegionMap
    /\ op = "NewRegionsInfo"
    /\ ret = <<>>
    /\ nops = 0
    /\ got = NoResult
    /\ writer = WriterIdle
    /\ reader = ReaderIdle

Init ==
    /\ InitIndex
    /\ cache = {}
    /\ counter = <<>>
    /\ last = <<>>

\* A call is made while the process lives and the bound on calls allows.
CanCall == ~index.panicked /\ nops < MaxOps

CallSetRegion(region) ==
    /\ CanCall
    /\ LET res == SetRegion(index, region)
       IN /\ index' = res.idx
          /\ ret' = IF res.idx.panicked THEN <<>> ELSE res.ret
    /\ op' = "SetRegion"
    /\ nops' = nops + 1
    /\ got' = NoResult
    /\ UNCHANGED <<rm, concVars, filterVars>>

DoSetRegion == \E region \in RegionArgs : CallSetRegion(region)

CallAddRegion(region) ==
    /\ CanCall
    /\ LET res == AddRegion(index, region)
       IN /\ index' = res.idx
          /\ ret' = IF res.idx.panicked THEN <<>> ELSE res.ret
    /\ op' = "AddRegion"
    /\ nops' = nops + 1
    /\ got' = NoResult
    /\ UNCHANGED <<rm, concVars, filterVars>>

DoAddRegion == \E region \in RegionArgs : CallAddRegion(region)

CallRemoveRegion(region) ==
    /\ CanCall
    /\ index' = RemoveRegion(index, region)
    /\ ret' = <<>>
    /\ op' = "RemoveRegion"
    /\ nops' = nops + 1
    /\ got' = NoResult
    /\ UNCHANGED <<rm, concVars, filterVars>>

DoRemoveRegion == \E region \in RegionArgs : CallRemoveRegion(region)

\* SetRegion and RemoveRegion, the calls a heartbeat makes.
Next == DoSetRegion \/ DoRemoveRegion

Spec == Init /\ [][Next]_vars

\* The three mutators of RegionsInfo.
NextAdd == DoSetRegion \/ DoAddRegion \/ DoRemoveRegion

SpecAdd == Init /\ [][NextAdd]_vars

\* The snapshots of an id that differ in the key range, in the epoch or in
\* the counters.
MapArgs ==
    {r \in RegionArgs :
        /\ r.peers = BasePeers(r.id)
        /\ r.leader = BaseLeader(r.id)
        /\ r.pendingPeers = {}}

\* A regionMap used on its own: Put of any such snapshot, Delete of any id.
DoMapPut ==
    \E region \in MapArgs :
        /\ rm' = MapPut(rm, region)
        /\ op' = "Put"
        /\ UNCHANGED <<index, ret, nops, got, concVars, filterVars>>

DoMapDelete ==
    \E id \in Ids :
        /\ rm' = MapDelete(rm, id)
        /\ op' = "Delete"
        /\ UNCHANGED <<index, ret, nops, got, concVars, filterVars>>

NextMap == DoMapPut \/ DoMapDelete

SpecMap == Init /\ [][NextMap]_vars

\* ------------------------------------------------- the region statistics

EmptyRegionApproximateSize == 1

\* newRegionStats: the counters at zero; a store the maps do not hold reads
\* as zero.
newRegionStats ==
    [Count |-> 0, EmptyCount |-> 0, StorageSize |-> 0, StorageKeys |-> 0,
     StoreLeaderCount |-> [s \in Stores |-> 0], StorePeerCount |-> [s \in Stores |-> 0],
     StoreLeaderSize |-> [s \in Stores |-> 0], StoreLeaderKeys |-> [s \in Stores |-> 0],
     StorePeerSize |-> [s \in Stores |-> 0], StorePeerKeys |-> [s \in Stores |-> 0]]

\* RegionStats.Observe: add the statistics of region r.
StatsObserve(st, r) ==
    LET lead(s) == IF \E p \in r.leader : p.storeId = s THEN 1 ELSE 0
        peer(s) == Cardinality({p \in r.peers : p.storeId = s})
    IN [Count |-> st.Count + 1,
        EmptyCount |-> st.EmptyCount +
                           (IF r.ApproximateSize <= EmptyRegionApproximateSize THEN 1 ELSE 0),
        StorageSize |-> st.StorageSize + r.ApproximateSize,
        StorageKeys |-> st.StorageKeys + r.ApproximateKeys,
        StoreLeaderCount |-> [s \in Stores |-> st.StoreLeaderCount[s] + lead(s)],
        StoreLeaderSize |-> [s \in Stores |-> st.StoreLeaderSize[s] + lead(s) * r.ApproximateSize],
        StoreLeaderKeys |-> [s \in Stores |-> st.StoreLeaderKeys[s] + lead(s) * r.ApproximateKeys],
        StorePeerCount |-> [s \in Stores |-> st.StorePeerCount[s] + peer(s)],
        StorePeerSize |-> [s \in Stores |-> st.StorePeerSize[s] + peer(s) * r.ApproximateSize],
        StorePeerKeys |-> [s \in Stores |-> st.StorePeerKeys[s] + peer(s) * r.ApproximateKeys]]

\* The visitor of GetRegionStats: stop at the first item that is unbounded
\* or ends at or after a non-empty endKey; otherwise observe
\* GetRegion(item.Id), if there is one, and go on.
RECURSIVE StatsVisit(_, _, _, _)
StatsVisit(x, items, endKey, st) ==
    IF items = <<>> THEN st
    ELSE LET meta == Head(items)
         IN IF endKey # 0 /\ (meta.endKey = 0 \/ meta.endKey >= endKey) THEN st
            ELSE LET region == GetRegion(x, meta.id)
                     st1 == IF region = {} THEN st
                            ELSE StatsObserve(st, CHOOSE r \in region : TRUE)
                 IN StatsVisit(x, Tail(items), endKey, st1)

\* RegionsInfo.GetRegionStats.
GetRegionStats(x, startKey, endKey) ==
    StatsVisit(x, TreeScanRange(x.tree, startKey), endKey, newRegionStats)

\* GetRegionStats of any range, on the index the heartbeats built.
DoGetRegionStats ==
    \E startKey \in Keys, endKey \in Keys :
        /\ ~index.panicked
        /\ op' = "GetRegionStats"
        /\ got' = [arg |-> <<startKey, endKey>>, res |-> <<>>,
                   stats |-> GetRegionStats(index, startKey, endKey)]
        /\ UNCHANGED <<index, rm, ret, nops, concVars, filterVars>>

\* The snapshots of the heartbeats of the statistics' scenario: those of an
\* id that differ in the key range or in the size.
StatsArgs == {r \in MapArgs : r.epoch = 0 /\ r.ApproximateKeys = 0}

StatsSet == \E region \in StatsArgs : CallSetRegion(region)

StatsRemove == \E region \in StatsArgs : CallRemoveRegion(region)

NextStats == StatsSet \/ StatsRemove \/ DoGetRegionStats

SpecStats == Init /\ [][NextStats]_vars

\* ------------------------------------------------ the index and its readers

MaxLimit == 2

\* The snapshots of the heartbeats of the readers' scenario: those of an id
\* that differ in the key range.
QueryArgs ==
    {r \in MapArgs : r.epoch = 0 /\ r.ApproximateSize = 1 /\ r.ApproximateKeys = 0}

HeartbeatSet == \E region \in QueryArgs : CallSetRegion(region)

HeartbeatRemove == \E region \in QueryArgs : CallRemoveRegion(region)

\* A query: the index stays as it is and the caller holds the result.
Query(name, arg, res) ==
    /\ ~index.panicked
    /\ op' = name
    /\ got' = [arg |-> arg, res |-> res]
    /\ UNCHANGED <<index, rm, ret, nops, concVars, filterVars>>

DoGetRegion == \E id \in Ids : Query("GetRegion", id, <<Cloned(GetRegion(index, id))>>)

DoSearchRegion == \E k \in Keys : Query("SearchRegion", k, <<Cloned(SearchRegion(index, k))>>)

DoScanRange ==
    \E k \in Keys, limit \in 0 .. MaxLimit :
        Query("ScanRange", <<k, limit>>, ScanRange(index, k, limit))

DoGetAdjacentRegions ==
    \E region \in QueryArgs :
        LET adj == GetAdjacentRegions(index, region)
        IN Query("GetAdjacentRegions", region, <<adj.prev, adj.next>>)

DoGetRegions == Query("GetRegions", <<>>, GetRegions(index))

\* randRegion returns the pointer regionMap.Get gave it.
DoRandRegion ==
    \E opts \in OptLists : \E o \in RandRegion(index, opts) :
        Query("RandRegion", [opts |-> opts, samples |-> o.samples], <<Handed(o.region)>>)

DoRandLeaderRegion ==
    \E s \in Stores, opts \in OptLists : \E o \in RandLeaderRegion(index, s, opts) :
        Query("RandLeaderRegion", [opts |-> opts, samples |-> o.samples], <<Handed(o.region)>>)

DoRandFollowerRegion ==
    \E s \in Stores, opts \in OptLists : \E o \in RandFollowerRegion(index, s, opts) :
        Query("RandFollowerRegion", [opts |-> opts, samples |-> o.samples], <<Handed(o.region)>>)

\* A write of the RegionInfo that old is, as each regionMap holding that
\* pointer then reads it (the totals of the map are not touched).
MapWrite(mp, old, new) ==
    [mp EXCEPT !.m = [i \in DOMAIN mp.m |->
        IF mp.m[i].region = old THEN [mp.m[i] EXCEPT !.region = new] ELSE mp.m[i]]]

StoreWrite(bucket, old, new) == [s \in DOMAIN bucket |-> MapWrite(bucket[s], old, new)]

WriteThrough(x, old, new) ==
    [x EXCEPT !.regions = MapWrite(@, old, new),
              !.leaders = StoreWrite(@, old, new),
              !.followers = StoreWrite(@, old, new),
              !.learners = StoreWrite(@, old, new),
              !.pendingPeers = StoreWrite(@, old, new)]

\* The caller sets ApproximateSize of a RegionInfo it was handed, and lets
\* go of the result.
DoWrite ==
    \E i \in DOMAIN got.res : \E h \in got.res[i] :
        \E size \in (1 .. MaxSize) \ {h.val.ApproximateSize} :
            LET new == [h.val EXCEPT !.ApproximateSize = size]
            IN /\ ~index.panicked
               /\ got' = NoResult
               /\ index' = IF h.stored THEN WriteThrough(index, h.val, new) ELSE index
               /\ op' = "Write"
               /\ UNCHANGED <<rm, ret, nops, concVars, filterVars>>

NextQuery ==
    \/ HeartbeatSet
    \/ HeartbeatRemove
    \/ DoGetRegion
    \/ DoSearchRegion
    \/ DoScanRange
    \/ DoGetAdjacentRegions
    \/ DoGetRegions
    \/ DoRandRegion
    \/ DoRandLeaderRegion
    \/ DoRandFollowerRegion
    \/ DoWrite

SpecQuery == Init /\ [][NextQuery]_vars

\* ------------------------------------------------ randRegion on a regionMap

\* The snapshots of an id that differ in the pending peers: none, or one of
\* the peers.
RandArgs ==
    {r \in RegionArgs :
        /\ r.peers = BasePeers(r.id)
        /\ r.leader = BaseLeader(r.id)
        /\ <<r.startKey, r.endKey>> = BaseRange(r.id)
        /\ r.epoch = 0 /\ r.ApproximateSize = 1 /\ r.ApproximateKeys = 0}

DoRandPut ==
    \E region \in RandArgs :
        /\ rm' = MapPut(rm, region)
        /\ op' = "Put"
        /\ got' = NoResult
        /\ UNCHANGED <<index, ret, nops, concVars, filterVars>>

DoRandDelete ==
    \E id \in Ids :
        /\ rm' = MapDelete(rm, id)
        /\ op' = "Delete"
        /\ got' = NoResult
        /\ UNCHANGED <<index, ret, nops, concVars, filterVars>>

\* randRegion(rm, opts...): one of the results the draws can give.
DoRandSample ==
    \E opts \in OptLists : \E o \in randRegion(rm, opts) :
        /\ op' = "randRegion"
        /\ got' = [arg |-> [opts |-> opts, samples |-> o.samples], res |-> <<Handed(o.region)>>]
        /\ UNCHANGED <<index, rm, ret, nops, concVars, filterVars>>

NextRand == DoRandPut \/ DoRandDelete \/ DoRandSample

SpecRand == Init /\ [][NextRand]_vars

\* ------------------------------------------- a regionMap that may be nil

\* The receiver rm of the methods is a *regionMap: nilRegionMap, or the map
\* newRegionMap allocated.  A method that reads a field of a nil receiver
\* panics, and no call follows a panic.
IsNil(mp) == "isNil" \in DOMAIN mp

Returned(method, arg, out, panics) ==
    [arg |-> <<method, arg>>, res |-> <<>>, out |-> out, panics |-> panics]

Running == IF "panics" \in DOMAIN got THEN ~got.panics ELSE TRUE

InitNil ==
    /\ index = NewRegionsInfo
    /\ rm = nilRegionMap
    /\ op = "nil"
    /\ ret = <<>>
    /\ nops = 0
    /\ got = NoResult
    /\ writer = WriterIdle
    /\ reader = ReaderIdle
    /\ cache = {}
    /\ counter = <<>>
    /\ last = <<>>

NilUnchanged == UNCHANGED <<index, ret, nops, concVars, filterVars>>

\* store = newRegionMap(), as AddRegion does for a store that has no map.
DoAllocate ==
    /\ Running
    /\ IsNil(rm)
    /\ rm' = newRegionMap
    /\ op' = "newRegionMap"
    /\ got' = NoResult
    /\ NilUnchanged

DoLen ==
    /\ Running
    /\ op' = "Len"
    /\ got' = Returned("Len", <<>>, IF IsNil(rm) THEN 0 ELSE MapLen(rm), FALSE)
    /\ rm' = rm
    /\ NilUnchanged

DoGet ==
    \E id \in Ids :
        /\ Running
        /\ op' = "Get"
        /\ got' = Returned("Get", id, IF IsNil(rm) THEN {} ELSE MapGet(rm, id), FALSE)
        /\ rm' = rm
        /\ NilUnchanged

\* Put reads rm.m first, whatever the receiver.
DoPut ==
    \E region \in RandArgs :
        /\ Running
        /\ op' = "Put"
        /\ got' = Returned("Put", region, <<>>, IsNil(rm))
        /\ rm' = IF IsNil(rm) THEN rm ELSE MapPut(rm, region)
        /\ NilUnchanged

\* RandomRegion and TotalSize ask rm.Len() first, which is 0 for nil.
DoRandomRegion ==
    \E out \in (IF (IF IsNil(rm) THEN 0 ELSE MapLen(rm)) = 0 THEN {{}} ELSE RandomRegion(rm)) :
        /\ Running
        /\ op' = "RandomRegion"
        /\ got' = Returned("RandomRegion", <<>>, out, FALSE)
        /\ rm' = rm
        /\ NilUnchanged

DoDelete ==
    \E id \in Ids :
        /\ Running
        /\ op' = "Delete"
        /\ got' = Returned("Delete", id, <<>>, FALSE)
        /\ rm' = IF IsNil(rm) THEN rm ELSE MapDelete(rm, id)
        /\ NilUnchanged

DoTotalSize ==
    /\ Running
    /\ op' = "TotalSize"
    /\ got' = Returned("TotalSize", <<>>,
                       IF (IF IsNil(rm) THEN 0 ELSE MapLen(rm)) = 0 THEN 0 ELSE rm.totalSize, FALSE)
    /\ rm' = rm
    /\ NilUnchanged

NextNil ==
    \/ DoAllocate
    \/ DoLen
    \/ DoGet
    \/ DoPut
    \/ DoRandomRegion
    \/ DoDelete
    \/ DoTotalSize

SpecNil == InitNil /\ [][NextNil]_vars

\* ------------------------------------------- a writer and a reader at once

\* RegionsInfo takes no lock itself: its caller wraps it in one
\* reader/writer lock, held exclusively for SetRegion and shared for the
\* queries.  The writer gets the lock when no reader holds it, a reader
\* when the writer does not hold it.
CanRLock_NoLock == TRUE

CanRLock == writer.pc = "idle"

CanLock == reader.pc = "idle"

ConcUnchanged == UNCHANGED <<rm, got, filterVars>>

\* The writer enters SetRegion(region).
WriterLock ==
    \E region \in QueryArgs :
        /\ writer.pc = "idle"
        /\ CanCall
        /\ CanLock
        /\ writer' = [pc |-> "origin", arg |-> {region}, pre |-> index]
        /\ nops' = nops + 1
        /\ op' = "SetRegion"
        /\ UNCHANGED <<index, ret, reader>>
        /\ ConcUnchanged

\* SetRegion: if origin := r.regions.Get(id); origin != nil, RemoveRegion(origin).
WriterRemoveOrigin ==
    /\ writer.pc = "origin"
    /\ \E region \in writer.arg :
          LET origin == MapGet(index.regions, region.id)
          IN index' = IF origin # {} THEN RemoveRegion(index, CHOOSE o \in origin : TRUE) ELSE index
    /\ writer' = [writer EXCEPT !.pc = "update"]
    /\ UNCHANGED <<op, ret, nops, reader>>
    /\ ConcUnchanged

\* AddRegion: tree.update, then RemoveRegion of every overlap.
WriterUpdateTree ==
    /\ writer.pc = "update"
    /\ \E region \in writer.arg :
          LET u == TreeUpdate(index.tree, Meta(region))
          IN /\ index' = RemoveOverlaps([index EXCEPT !.tree = u.tree], u.overlaps)
             /\ ret' = u.overlaps
    /\ writer' = [writer EXCEPT !.pc = "put"]
    /\ UNCHANGED <<op, nops, reader>>
    /\ ConcUnchanged

\* AddRegion: regions.Put and the per-store collections.
WriterPut ==
    /\ writer.pc = "put"
    /\ \E region \in writer.arg : index' = PutRegion(index, region)
    /\ writer' = [writer EXCEPT !.pc = "unlock"]
    /\ UNCHANGED <<op, ret, nops, reader>>
    /\ ConcUnchanged

\* SetRegion has returned.
WriterUnlock ==
    /\ writer.pc = "unlock"
    /\ writer' = [writer EXCEPT !.pc = "idle"]
    /\ UNCHANGED <<index, op, ret, nops, reader>>
    /\ ConcUnchanged

\* The reader starts a logical read: SearchRegion(key), then the leader
\* counts of the stores.
ReaderLock ==
    \E k \in Keys :
        /\ reader.pc = "idle"
        /\ ~index.panicked
        /\ CanRLock
        /\ reader' = [pc |-> "search", key |-> k, view |-> <<>>]
        /\ UNCHANGED <<index, op, ret, nops, writer>>
        /\ ConcUnchanged

\* SearchRegion: r.tree.search(regionKey).
ReaderSearch ==
    /\ reader.pc = "search"
    /\ reader' = [reader EXCEPT !.pc = "get", !.view = <<TreeSearch(index.tree, reader.key)>>]
    /\ UNCHANGED <<index, op, ret, nops, writer>>
    /\ ConcUnchanged

\* SearchRegion: nil for no item, else r.GetRegion(region.GetId()).
ReaderGet ==
    /\ reader.pc = "get"
    /\ reader' = [reader EXCEPT
                     !.pc = "count",
                     !.view = Append(@, UNION {GetRegion(index, it.id) : it \in reader.view[1]})]
    /\ UNCHANGED <<index, op, ret, nops, writer>>
    /\ ConcUnchanged

\* GetStoreLeaderCount of every store.
ReaderCount ==
    /\ reader.pc = "count"
    /\ reader' = [reader EXCEPT
                     !.pc = "unlock",
                     !.view = Append(@, [s \in Stores |-> GetStoreLeaderCount(index, s)])]
    /\ UNCHANGED <<index, op, ret, nops, writer>>
    /\ ConcUnchanged

\* The read is over.
ReaderUnlock ==
    /\ reader.pc = "unlock"
    /\ reader' = ReaderIdle
    /\ UNCHANGED <<index, op, ret, nops, writer>>
    /\ ConcUnchanged

NextConc ==
    \/ WriterLock
    \/ WriterRemoveOrigin
    \/ WriterUpdateTree
    \/ WriterPut
    \/ WriterUnlock
    \/ ReaderLock
    \/ ReaderSearch
    \/ ReaderGet
    \/ ReaderCount
    \/ ReaderUnlock

SpecConc == Init /\ [][NextConc]_vars

\* What the reader's queries return in a state x of the index.
Observe(x, k) ==
    <<TreeSearch(x.tree, k), SearchRegion(x, k), [s \in Stores |-> GetStoreLeaderCount(x, s)]>>

\* The index as the last SetRegion found it and as that call leaves it.
PreState == writer.pre

PostState ==
    IF writer.arg = {} THEN writer.pre
    ELSE SetRegion(writer.pre, CHOOSE region \in writer.arg : TRUE).idx

\* ------------------------------------------------------ the store filters

\* int and uint64 have IntBits bits here; int(u) keeps the bits of u.
IntBits == 4

IntOfUint64(u) == IF u >= 2 ^ (IntBits - 1) THEN u - 2 ^ IntBits ELSE u

MaxDownTime == 2
MaxEvals == 2

\* core.StoreInfo as the filters observe it.  Store id has the host label
\* id; the zone label is "A" or "B".
StoreAt(id, zone) ==
    [id |-> id, zone |-> zone, host |-> id, blocked |-> FALSE, state |-> "Up",
     busy |-> FALSE, downTime |-> 0, disconnected |-> FALSE, pendingPeerCount |-> 0,
     sendingSnapCount |-> 0, receivingSnapCount |-> 0, applyingSnapCount |-> 0,
     usedRatio |-> 0]

s1 == StoreAt(1, "A")
s2 == StoreAt(2, "A")
s3 == StoreAt(3, "B")
s4 == StoreAt(4, "B")
s5 == StoreAt(5, "A")

\* The stores of the five-store cluster, and the observations of store 1
\* that differ from the healthy one in one respect.
StoreInfos ==
    {s1, s2, s3, s4, s5}
    \cup {[s1 EXCEPT !.blocked = TRUE], [s1 EXCEPT !.disconnected = TRUE]}
    \cup {[s1 EXCEPT !.state = st] : st \in {"Offline", "Tombstone"}}
    \cup {[s1 EXCEPT !.busy = b, !.downTime = d] : b \in BOOLEAN, d \in 0 .. MaxDownTime + 1}
    \cup {[s1 EXCEPT !.pendingPeerCount = 2], [s1 EXCEPT !.usedRatio = 9]}
    \cup {[s1 EXCEPT !.sendingSnapCount = 2], [s1 EXCEPT !.receivingSnapCount = 2],
          [s1 EXCEPT !.applyingSnapCount = 2]}

\* schedule.Options: the values the filters read.
BaseOpt ==
    [maxStoreDownTime |-> 1, maxPendingPeerCount |-> 1, maxSnapshotCount |-> 1,
     lowSpaceRatio |-> 8, rejectLeader |-> {}]

Opts ==
    {[BaseOpt EXCEPT !.maxStoreDownTime = d] : d \in 1 .. MaxDownTime}
    \cup {[BaseOpt EXCEPT !.maxPendingPeerCount = 0], [BaseOpt EXCEPT !.rejectLeader = {"B"}]}

\* Options whose maxPendingPeerCount, a uint64, is just below, at and far
\* above half the range.
LargeOpts ==
    {[BaseOpt EXCEPT !.maxPendingPeerCount = u] :
        u \in {2 ^ (IntBits - 1) - 1, 2 ^ (IntBits - 1), 2 ^ IntBits - 1}}

\* StoreInfo.IsUp, IsTombstone, IsLowSpace; Options.CheckLabelProperty for the
\* RejectLeader rule; Classifier.GetStoreNamespace.
IsUp(store) == store.state = "Up"

IsTombstone(store) == store.state = "Tombstone"

IsLowSpace(store, ratio) == store.usedRatio > ratio

CheckLabelProperty(opt, store) == store.zone \in opt.rejectLeader

GetStoreNamespace(classifier, store) == classifier[store.id]

\* StoreInfo.CompareLocation: the index (from 0) of the first label on which
\* the two stores differ, -1 when they differ on none.
CompareLocation(a, b, labels) ==
    LET differ == {i \in DOMAIN labels : a[labels[i]] # b[labels[i]]}
    IN IF differ = {} THEN -1 ELSE (CHOOSE i \in differ : \A j \in differ : i <= j) - 1

replicaBaseScore == 100

\* DistinctScore: each store other than the candidate adds
\* replicaBaseScore ^ (len(labels) - index - 1) for the first label index on
\* which it differs from the candidate: the fewer stores share the
\* candidate's location, the higher the score.
RECURSIVE DistinctSum(_, _, _)
DistinctSum(labels, stores, other) ==
    IF stores = {} THEN 0
    ELSE LET s == CHOOSE x \in stores : TRUE
             idx == CompareLocation(s, other, labels)
         IN (IF s.id # other.id /\ idx # -1
             THEN replicaBaseScore ^ (Len(labels) - idx - 1) ELSE 0)
            + DistinctSum(labels, stores \ {s}, other)

DistinctScore(labels, stores, other) == DistinctSum(labels, stores, other)

\* The constructors of the filters.
NewExcludedFilter(sources, targets) ==
    [type |-> "exclude-filter", sources |-> sources, targets |-> targets]

NewBlockFilter == [type |-> "block-filter"]

NewStateFilter == [type |-> "state-filter"]

NewHealthFilter == [type |-> "health-filter"]

NewDisconnectFilter == [type |-> "disconnect-filter"]

NewPendingPeerCountFilter == [type |-> "pending-peer-filter"]

NewSnapshotCountFilter == [type |-> "snapshot-filter"]

\* The cacheFilter holds a pointer to the TTL cache, the variable cache.
NewCacheFilter == [type |-> "cache-filter"]

NewStorageThresholdFilter == [type |-> "storage-threshold-filter"]

NewDistinctScoreFilter(labels, stores, source) ==
    LET newStores == {s \in stores : s.id # source.id}
    IN [type |-> "distinct-filter", labels |-> labels, stores |-> newStores,
        safeScore |-> DistinctScore(labels, newStores, source)]

NewNamespaceFilter(classifier, namespace) ==
    [type |-> "namespace-filter", classifier |-> classifier, namespace |-> namespace]

NewRejectLeaderFilter == [type |-> "reject-leader-filter"]

Type(f) == f.type

\* The methods of the filters that compute something.
healthFilter_AtLeast(opt, store) ==
    IF store.busy THEN TRUE ELSE store.downTime >= opt.maxStoreDownTime

healthFilter(opt, store) ==
    IF store.busy THEN TRUE ELSE store.downTime > opt.maxStoreDownTime

pendingPeerCountFilter(opt, store) ==
    IF opt.maxPendingPeerCount = 0 THEN FALSE
    ELSE store.pendingPeerCount > IntOfUint64(opt.maxPendingPeerCount)

snapshotCountFilter(opt, store) ==
    \/ store.sendingSnapCount > opt.maxSnapshotCount
    \/ store.receivingSnapCount > opt.maxSnapshotCount
    \/ store.applyingSnapCount > opt.maxSnapshotCount

cacheFilterSource(opt, store) == store.id \in cache

cacheFilterTarget_ReadsCache(opt, store) == store.id \in cache

cacheFilterTarget(opt, store) == FALSE

distinctScoreFilterTarget_NotHigher(f, opt, store) ==
    DistinctScore(f.labels, f.stores, store) <= f.safeScore

distinctScoreFilterTarget(f, opt, store) ==
    DistinctScore(f.labels, f.stores, store) < f.safeScore

\* Filter.FilterSource: TRUE when the store is not to be a source.
SourceOf(f, opt, store) ==
    CASE f.type = "exclude-filter" -> store.id \in f.sources
      [] f.type = "block-filter" -> store.blocked
      [] f.type = "state-filter" -> IsTombstone(store)
      [] f.type = "health-filter" -> healthFilter(opt, store)
      [] f.type = "disconnect-filter" -> store.disconnected
      [] f.type = "pending-peer-filter" -> pendingPeerCountFilter(opt, store)
      [] f.type = "snapshot-filter" -> snapshotCountFilter(opt, store)
      [] f.type = "cache-filter" -> cacheFilterSource(opt, store)
      [] f.type = "storage-threshold-filter" -> FALSE
      [] f.type = "distinct-filter" -> FALSE
      [] f.type = "namespace-filter" -> GetStoreNamespace(f.classifier, store) # f.namespace
      [] f.type = "reject-leader-filter" -> FALSE

\* Filter.FilterTarget: TRUE when the store is not to be a target.
TargetOf(f, opt, store) ==
    CASE f.type = "exclude-filter" -> store.id \in f.targets
      [] f.type = "block-filter" -> store.blocked
      [] f.type = "state-filter" -> ~IsUp(store)
      [] f.type = "health-filter" -> healthFilter(opt, store)
      [] f.type = "disconnect-filter" -> store.disconnected
      [] f.type = "pending-peer-filter" -> pendingPeerCountFilter(opt, store)
      [] f.type = "snapshot-filter" -> snapshotCountFilter(opt, store)
      [] f.type = "cache-filter" -> cacheFilterTarget(opt, store)
      [] f.type = "storage-threshold-filter" -> IsLowSpace(store, opt.lowSpaceRatio)
      [] f.type = "distinct-filter" -> distinctScoreFilterTarget(f, opt, store)
      [] f.type = "namespace-filter" -> GetStoreNamespace(f.classifier, store) # f.namespace
      [] f.type = "reject-leader-filter" -> CheckLabelProperty(opt, store)

\* The namespace table of the classifier: stores 1 and 2 are in "ns1".
Classifier == [id \in 1 .. 5 |-> IF id <= 2 THEN "ns1" ELSE "global"]

\* The label hierarchies.
LabelLists == {<<"zone">>, <<"zone", "host">>}

\* The filters in use: one of each type, and the distinctScoreFilter of the
\* peer stores s1, s2, s3 for each source and label hierarchy.
DistinctFilters ==
    {NewDistinctScoreFilter(labels, {s1, s2, s3}, source) :
        labels \in LabelLists, source \in {s1, s3}}

Filters ==
    {NewExcludedFilter({1}, {2}), NewBlockFilter, NewStateFilter, NewHealthFilter,
     NewDisconnectFilter, NewPendingPeerCountFilter, NewSnapshotCountFilter,
     NewCacheFilter, NewStorageThresholdFilter, NewNamespaceFilter(Classifier, "ns1"),
     NewRejectLeaderFilter}
    \cup DistinctFilters

Directions == {"filter-source", "filter-target"}

\* filter.FilterSource(opt, store) or filter.FilterTarget(opt, store).
Rejects(f, dir, opt, store) ==
    IF dir = "filter-source" THEN SourceOf(f, opt, store) ELSE TargetOf(f, opt, store)

\* The ids the TTL cache is asked to hold.
CacheIds == {1, 2}

\* cache.Put(id), and the expiry of an entry.
DoCachePut ==
    \E id \in CacheIds \ cache :
        /\ cache' = cache \cup {id}
        /\ op' = "cache.Put"
        /\ UNCHANGED <<index, rm, ret, nops, got, concVars, counter, last>>

DoCacheExpire ==
    \E id \in cache :
        /\ cache' = cache \ {id}
        /\ op' = "cache.expire"
        /\ UNCHANGED <<index, rm, ret, nops, got, concVars, counter, last>>

\* The calls of one filter method with one opt and one store: the arguments
\* are drawn at the start, the result is that of the last call made.
InitEval ==
    /\ InitIndex
    /\ cache = {}
    /\ counter = <<>>
    /\ \E f \in Filters, dir \in Directions, opt \in Opts \cup LargeOpts, store \in StoreInfos :
          last = [f |-> f, dir |-> dir, opt |-> opt, store |-> store, calls |-> 0, res |-> FALSE]

\* One call of the filter's FilterSource or FilterTarget.
DoEvaluate ==
    /\ last.calls < MaxEvals
    /\ last' = [last EXCEPT !.calls = @ + 1,
                            !.res = Rejects(last.f, last.dir, last.opt, last.store)]
    /\ op' = "Filter"
    /\ UNCHANGED <<index, rm, ret, nops, got, concVars, cache, counter>>

NextEval == DoEvaluate \/ DoCachePut \/ DoCacheExpire

SpecEval == InitEval /\ [][NextEval]_vars

\* ------------------------------------------------------- the heartbeats

\* 1 << 20, the bytes of a MB, is 2 ^ MBBits at the width of IntBits bits.
MBBits == 2
MaxBeats == 2

\* pdpb.RegionHeartbeatRequest: the base snapshot of a region id with any
\* byte count a uint64 holds.
Heartbeats ==
    {[id |-> id, startKey |-> BaseRange(id)[1], endKey |-> BaseRange(id)[2], epoch |-> 0,
      peers |-> BasePeers(id), leader |-> BaseLeader(id), pendingPeers |-> {},
      approximateSize |-> bytes, approximateKeys |-> 0] :
        id \in Ids, bytes \in 0 .. 2 ^ IntBits - 1}

\* RegionFromHeartbeat that keeps a size of 0.
RegionFromHeartbeat_NoFloor(heartbeat) ==
    classifyVoterAndLearner(
        [id |-> heartbeat.id, startKey |-> heartbeat.startKey, endKey |-> heartbeat.endKey,
         epoch |-> heartbeat.epoch, peers |-> heartbeat.peers, leader |-> heartbeat.leader,
         pendingPeers |-> heartbeat.pendingPeers, learners |-> {}, voters |-> {},
         ApproximateSize |-> IntOfUint64(heartbeat.approximateSize \div 2 ^ MBBits),
         ApproximateKeys |-> IntOfUint64(heartbeat.approximateKeys)])

\* RegionFromHeartbeat: the size in MB by the division of a uint64, raised
\* to EmptyRegionApproximateSize, then converted to int64.
RegionFromHeartbeat(heartbeat) ==
    LET mb == heartbeat.approximateSize \div 2 ^ MBBits
        regionSize == IF mb < EmptyRegionApproximateSize THEN EmptyRegionApproximateSize ELSE mb
    IN classifyVoterAndLearner(
           [id |-> heartbeat.id, startKey |-> heartbeat.startKey, endKey |-> heartbeat.endKey,
            epoch |-> heartbeat.epoch, peers |-> heartbeat.peers, leader |-> heartbeat.leader,
            pendingPeers |-> heartbeat.pendingPeers, learners |-> {}, voters |-> {},
            ApproximateSize |-> IntOfUint64(regionSize),
            ApproximateKeys |-> IntOfUint64(heartbeat.approximateKeys)])

\* A heartbeat arrives: the RegionInfo made of it is handed to SetRegion.
DoHeartbeat ==
    \E heartbeat \in Heartbeats :
        LET region == RegionFromHeartbeat(heartbeat)
            res == SetRegion(index, region)
        IN /\ ~index.panicked
           /\ nops < MaxBeats
           /\ index' = res.idx
           /\ ret' = IF res.idx.panicked THEN <<>> ELSE res.ret
           /\ op' = "Heartbeat"
           /\ nops' = nops + 1
           /\ got' = [arg |-> heartbeat, res |-> <<Handed({region})>>]
           /\ UNCHANGED <<rm, concVars, filterVars>>

NextHeartbeat == DoHeartbeat

SpecHeartbeat == Init /\ [][NextHeartbeat]_vars

\* ------------------------------------------------- the composite filters

MaxFilters == 3

\* fmt.Sprintf("store%d", store.GetId()).
StoreLabel(store) == <<"store", store.id>>

\* The loop of FilterSource and FilterTarget from the i-th filter on: whether
\* a filter rejected the store, how many filters were called, and the labels
\* of filterCounter to increment.
RECURSIVE FilterWalk(_, _, _, _, _)
FilterWalk(dir, opt, store, filters, i) ==
    IF i > Len(filters) THEN [res |-> FALSE, evaluated |-> Len(filters), inc |-> {}]
    ELSE IF Rejects(filters[i], dir, opt, store)
         THEN [res |-> TRUE, evaluated |-> i,
               inc |-> {<<dir, StoreLabel(store), Type(filters[i])>>}]
         ELSE FilterWalk(dir, opt, store, filters, i + 1)

FilterSource(opt, store, filters) == FilterWalk("filter-source", opt, store, filters, 1)

\* FilterTarget that asks the filters as FilterSource does.
FilterTarget_AsSource(opt, store, filters) == FilterWalk("filter-source", opt, store, filters, 1)

FilterTarget(opt, store, filters) == FilterWalk("filter-target", opt, store, filters, 1)

\* filterCounter.WithLabelValues(...).Inc() for each label of inc.
Count(c, label) == IF label \in DOMAIN c THEN c[label] ELSE 0

Inc(c, inc) == [l \in DOMAIN c \cup inc |-> Count(c, l) + (IF l \in inc THEN 1 ELSE 0)]

\* The filter lists handed to the composite filters.
ListFilters == {NewHealthFilter, NewCacheFilter, NewExcludedFilter({1}, {2})}

FilterLists == UNION {[1 .. n -> ListFilters] : n \in 0 .. MaxFilters}

\* The calls of FilterSource and FilterTarget with one opt, one store and one
\* list of filters, drawn at the start.
InitFilter ==
    /\ InitIndex
    /\ cache = {}
    /\ counter = <<>>
    /\ \E opt \in Opts, store \in StoreInfos, filters \in FilterLists :
          last = [opt |-> opt, store |-> store, filters |-> filters, dir |-> "", calls |-> 0,
                  res |-> FALSE, evaluated |-> 0, before |-> <<>>]

Composite(name, dir, out) ==
    /\ last.calls < MaxEvals
    /\ last' = [last EXCEPT !.dir = dir, !.calls = @ + 1, !.res = out.res,
                            !.evaluated = out.evaluated, !.before = counter]
    /\ counter' = Inc(counter, out.inc)
    /\ op' = name
    /\ UNCHANGED <<index, rm, ret, nops, got, concVars, cache>>

DoFilterSource ==
    Composite("FilterSource", "filter-source", FilterSource(last.opt, last.store, last.filters))

DoFilterTarget ==
    Composite("FilterTarget", "filter-target", FilterTarget(last.opt, last.store, last.filters))

NextFilter == DoFilterSource \/ DoFilterTarget \/ DoCachePut \/ DoCacheExpire

SpecFilter == InitFilter /\ [][NextFilter]_vars

\* --------------------------------------------------------------- queries

\* The regions resident in the global map.
Resident(x) == {x.regions.m[i].region : i \in DOMAIN x.regions.m}

\* The region ids a per-store collection holds for store s.
StoreIds(bucket, s) == IF s \in DOMAIN bucket THEN DOMAIN bucket[s].m ELSE {}

\* Every regionMap of the system.
AllMaps ==
    {rm, index.regions}
    \cup {index.leaders[s] : s \in DOMAIN index.leaders}
    \cup {index.followers[s] : s \in DOMAIN index.followers}
    \cup {index.learners[s] : s \in DOMAIN index.learners}
    \cup {index.pendingPeers[s] : s \in DOMAIN index.pendingPeers}

RECURSIVE SumOver(_, _)
SumOver(f, dom) ==
    IF dom = {} THEN 0
    ELSE LET d == CHOOSE e \in dom : TRUE IN f[d] + SumOver(f, dom \ {d})

\* Key k lies in the range of region or tree item r.
Covers(r, k) == r.startKey <= k /\ BeforeEnd(k, r.endKey)

\* ---------------------------------------------------------------- claims

\* C1: after any sequence of SetRegion and RemoveRegion calls that returned,
\* TreeLength() equals Length().
C1_TreeLengthEqualsLength ==
    ~index.panicked => TreeLength(index) = Length(index)

\* C2: any two distinct regions resident in the index, in the tree as in the
\* global map, have non-overlapping key ranges [startKey, endKey).
C2_RangesDisjoint ==
    ~index.panicked =>
        /\ \A a, b \in index.tree : a # b => ~Overlap(a, b)
        /\ \A a, b \in Resident(index) : a.id # b.id => ~Overlap(a, b)

\* The ids the per-store collections hold, over all stores and roles.
BucketIds(x) ==
    UNION {StoreIds(x.leaders, s) \cup StoreIds(x.followers, s)
           \cup StoreIds(x.learners, s) \cup StoreIds(x.pendingPeers, s) : s \in Stores}

\* C3: SetRegion(R) returns exactly the previously resident regions of another
\* id whose range intersects R's; afterwards none of them is in the tree, in
\* the global map or in a per-store collection, and R is resident.  Stated of
\* every call SetRegion(R) that can follow a reachable state.
C3_SetRegionDissolvesOverlaps ==
    CanCall =>
        \A R \in RegionArgs :
            LET res == SetRegion(index, R)
                x == res.idx
                gone == {r \in Resident(index) : r.id # R.id /\ Overlap(r, R)}
            IN /\ ~x.panicked
               /\ {res.ret[i] : i \in DOMAIN res.ret} = {Meta(r) : r \in gone}
               /\ \A r \in gone :
                    /\ \A it \in x.tree : it.id # r.id
                    /\ GetRegion(x, r.id) = {}
                    /\ r.id \notin BucketIds(x)
               /\ Meta(R) \in x.tree
               /\ GetRegion(x, R.id) = {R}

\* C4: SearchRegion(k) returns R for every key k in the range of a resident
\* region R, and absent for a key that no resident region covers.
C4_SearchFindsResident ==
    ~index.panicked =>
        \A k \in Keys :
            /\ \A R \in Resident(index) : Covers(R, k) => SearchRegion(index, k) = {R}
            /\ (\A R \in Resident(index) : ~Covers(R, k)) => SearchRegion(index, k) = {}

\* C5: each voter of a resident region with a leader puts the region in
\* leaders[store] (the leader) or in followers[store] (any other voter) and
\* not in both; leaders[s] and followers[s] hold only resident regions with
\* such a voter on s.
C5_LeaderFollowerClassified ==
    ~index.panicked =>
        /\ \A R \in Resident(index) : \A l \in R.leader : \A p \in R.voters :
              IF p.id = l.id
              THEN /\ R.id \in StoreIds(index.leaders, p.storeId)
                   /\ R.id \notin StoreIds(index.followers, p.storeId)
              ELSE /\ R.id \in StoreIds(index.followers, p.storeId)
                   /\ R.id \notin StoreIds(index.leaders, p.storeId)
        /\ \A s \in Stores :
              /\ \A id \in StoreIds(index.leaders, s) :
                    \E R \in Resident(index) : \E l \in R.leader : \E p \in R.voters :
                        R.id = id /\ p.storeId = s /\ p.id = l.id
              /\ \A id \in StoreIds(index.followers, s) :
                    \E R \in Resident(index) : \E l \in R.leader : \E p \in R.voters :
                        R.id = id /\ p.storeId = s /\ p.id # l.id

\* C6: with or without a leader, each learner of a resident region puts the
\* region in learners[store] and each pending peer in pendingPeers[store], so
\* the per-store counts count every such resident region.
C6_LearnersAndPendingPlaced ==
    ~index.panicked =>
        /\ \A R \in Resident(index) :
              /\ \A p \in R.learners : R.id \in StoreIds(index.learners, p.storeId)
              /\ \A p \in R.pendingPeers : R.id \in StoreIds(index.pendingPeers, p.storeId)
        /\ \A s \in Stores :
              /\ GetStoreLearnerCount(index, s) >=
                    Cardinality({R \in Resident(index) : \E p \in R.learners : p.storeId = s})
              /\ GetStorePendingPeerCount(index, s) >=
                    Cardinality({R \in Resident(index) : \E p \in R.pendingPeers : p.storeId = s})

\* The stored region of id has on store s a peer satisfying role.
StoredHasPeer(id, s, role(_, _)) ==
    \E R \in Resident(index) : R.id = id /\ \E p \in R.peers : p.storeId = s /\ role(R, p)

\* C7: every id in a per-store collection is in the global map, and the
\* collection holds it only for a store on which the stored region has a peer
\* of that role.
C7_BucketsBackedByMap ==
    ~index.panicked =>
        \A s \in Stores :
            /\ \A id \in StoreIds(index.leaders, s) :
                  StoredHasPeer(id, s, LAMBDA R, p : p \in R.voters /\ \E l \in R.leader : l.id = p.id)
            /\ \A id \in StoreIds(index.followers, s) :
                  StoredHasPeer(id, s, LAMBDA R, p : p \in R.voters /\ \E l \in R.leader : l.id # p.id)
            /\ \A id \in StoreIds(index.learners, s) :
                  StoredHasPeer(id, s, LAMBDA R, p : p \in R.learners)
            /\ \A id \in StoreIds(index.pendingPeers, s) :
                  StoredHasPeer(id, s, LAMBDA R, p : p \in R.pendingPeers)

\* C8: in every regionMap, totalSize is the sum of ApproximateSize over the
\* regions stored and totalKeys the sum of their ApproximateKeys.
C8_TotalsAreSums ==
    \A mp \in AllMaps :
        /\ mp.totalSize = SumOver([i \in DOMAIN mp.m |-> mp.m[i].region.ApproximateSize], DOMAIN mp.m)
        /\ mp.totalKeys = SumOver([i \in DOMAIN mp.m |-> mp.m[i].region.ApproximateKeys], DOMAIN mp.m)
        /\ MapTotalSize(mp) = mp.totalSize

\* Two regions of different sizes are stored after a Put.
C8_Witness ==
    /\ op = "Put"
    /\ MapLen(rm) = 2
    /\ rm.totalSize = MaxSize + 1
    /\ rm.totalKeys = MaxApproxKeys

C10_LeaderCountsAddUp ==
    ~index.panicked =>
        SumOver([s \in Stores |-> GetStoreLeaderCount(index, s)], Stores)
            = Cardinality({R \in Resident(index) : R.leader # {}})

\* C11: every region a query hands out (GetRegion, SearchRegion, ScanRange,
\* GetAdjacentRegions, GetRegions, RandRegion, RandLeaderRegion,
\* RandFollowerRegion) is a copy: a write by the caller to what it was handed
\* changes nothing that GetRegion, SearchRegion or the size of a store's
\* leader regions afterwards return.
C11_QueriesHandCopies ==
    [][op' = "Write" =>
        /\ \A id \in Ids : GetRegion(index', id) = GetRegion(index, id)
        /\ \A k \in Keys : SearchRegion(index', k) = SearchRegion(index, k)
        /\ \A s \in Stores, id \in Ids : StoreGet(index'.leaders, s, id) = StoreGet(index.leaders, s, id)]_vars

C13_AdjacentWithoutGap ==
    op = "GetAdjacentRegions" =>
        /\ \A prev \in got.res[1] : prev.val.endKey = got.arg.startKey
        /\ \A next \in got.res[2] : got.arg.endKey = next.val.startKey

\* The regions a regionMap stores.
Stored(mp) == {mp.m[i].region : i \in DOMAIN mp.m}

\* C14: without options randRegion returns nil if and only if the map is
\* empty, and otherwise a stored region after one sample, every stored region
\* being a possible result.  With options it draws at most
\* randomRegionMaxRetry (10) samples; a region it returns is stored in the map
\* and selected by every option; it returns nil only for an empty map or
\* after 10 samples that an option rejected.
C14_RandRegion ==
    /\ LET results == randRegion(rm, <<>>)
       IN /\ \A o \in results : o.samples = 1
          /\ {o.region : o \in results} = IF MapLen(rm) = 0 THEN {{}} ELSE {{r} : r \in Stored(rm)}
    /\ op = "randRegion" =>
          /\ got.arg.samples \in 1 .. 10
          /\ \A h \in got.res[1] :
                /\ h.val \in Stored(rm)
                /\ \A k \in DOMAIN got.arg.opts : Select(got.arg.opts[k], h.val)
          /\ got.res[1] = {} =>
                \/ MapLen(rm) = 0 /\ got.arg.samples = 1
                \/ /\ got.arg.samples = 10
                   /\ \E r \in Stored(rm) : \E k \in DOMAIN got.arg.opts : ~Select(got.arg.opts[k], r)

\* randRegion has given up after ten samples of a map that holds a healthy
\* region and one with a pending peer, the last id standing first in ids.
C14_Witness ==
    /\ op = "randRegion"
    /\ got.res[1] = {}
    /\ got.arg.samples = randomRegionMaxRetry
    /\ got.arg.opts = <<"HealthRegion">>
    /\ rm.ids = <<MaxId, 1>>
    /\ \E r \in Stored(rm) : HealthRegion(r)

\* C20: ScanRange(startKey, limit) returns at most limit regions for every
\* limit >= 0 (none for limit 0), in ascending key order, and fewer than limit
\* only when the tree holds no further region at or after startKey.
C20_ScanRangeAtMostLimit ==
    op = "ScanRange" =>
        LET startKey == got.arg[1]
            limit == got.arg[2]
        IN /\ Len(got.res) <= limit
           /\ \A i, j \in DOMAIN got.res :
                 i < j => \A a \in got.res[i], b \in got.res[j] : a.val.startKey < b.val.startKey
           /\ Len(got.res) < limit =>
                 Len(got.res) = Cardinality({it \in index.tree : it.startKey >= startKey})

\* The size and the count of the regions a per-store collection holds for s.
StoreSizeLen(bucket, s) ==
    IF s \in DOMAIN bucket THEN <<MapTotalSize(bucket[s]), MapLen(bucket[s])>> ELSE <<0, 0>>

\* The filters of the list at hand that reject the store in the direction of
\* the last call.
Rejecting == {i \in DOMAIN last.filters : Rejects(last.filters[i], last.dir, last.opt, last.store)}

FirstRejecting == CHOOSE i \in Rejecting : \A j \in Rejecting : i <= j

\* C15: FilterSource(opt, store, filters), and FilterTarget alike, returns
\* true if and only if some filter of the list rejects the store in that
\* direction; the filters are called in list order up to the first that
\* rejects and none after it; filterCounter is incremented exactly once, under
\* (direction, storeId, type of the first rejecting filter), and no count
\* changes when every filter accepts or the list is empty.
C15_CompositeFilter ==
    op \in {"FilterSource", "FilterTarget"} =>
        /\ last.dir = (IF op = "FilterSource" THEN "filter-source" ELSE "filter-target")
        /\ last.res = (Rejecting # {})
        /\ last.evaluated = IF Rejecting = {} THEN Len(last.filters) ELSE FirstRejecting
        /\ IF Rejecting = {} THEN counter = last.before
           ELSE LET label == <<last.dir, StoreLabel(last.store), Type(last.filters[FirstRejecting])>>
                IN /\ DOMAIN counter = DOMAIN last.before \cup {label}
                   /\ \A l \in DOMAIN counter :
                         counter[l] = Count(last.before, l) + (IF l = label THEN 1 ELSE 0)

\* The second call for a list of three filters stopped at the second filter,
\* the third rejecting as well, and the count of the label stands at two.
C15_Witness ==
    /\ op = "FilterSource"
    /\ Len(last.filters) = MaxFilters
    /\ Rejecting = {2, 3}
    /\ Type(last.filters[2]) # Type(last.filters[3])
    /\ last.evaluated = 2
    /\ Count(counter, <<"filter-source", StoreLabel(last.store), Type(last.filters[2])>>) = MaxEvals

\* A step is a call of the filter method at hand.
IsCall == last'.calls > last.calls

\* The filter method at hand is FilterSource of the cacheFilter.
IsCacheSource == Type(last.f) = "cache-filter" /\ last.dir = "filter-source"

ScenarioFilter == NewDistinctScoreFilter(<<"zone">>, {s1, s2, s3}, s1)

\* A method of a distinctScoreFilter has been called: FilterSource has
\* accepted, FilterTarget has rejected exactly when the DistinctScore of the
\* candidate against the peer stores without the source is lower than the
\* source's.
DistinctFilterRule ==
    /\ last.dir = "filter-source" => last.res = FALSE
    /\ last.dir = "filter-target" =>
          \A labels \in LabelLists, source \in {s1, s3} :
              last.f = NewDistinctScoreFilter(labels, {s1, s2, s3}, source) =>
                  LET others == {s \in {s1, s2, s3} : s.id # source.id}
                  IN last.res = (DistinctScore(labels, others, last.store)
                                    < DistinctScore(labels, others, source))

DistinctFilterCalled == op = "Filter" /\ last.calls >= 1 /\ Type(last.f) = "distinct-filter"

\* C17: with peer stores s1@zoneA, s2@zoneA, s3@zoneB, source s1 and labels
\* [zone], the distinctScoreFilter accepts s4@zoneB as target, its score being
\* strictly higher than the safe score, and rejects s5@zoneA as target; in
\* general FilterTarget rejects exactly the candidates whose DistinctScore is
\* lower than the source's, and FilterSource never rejects.
C17_DistinctScoreFilter ==
    DistinctFilterCalled =>
        /\ DistinctFilterRule
        /\ (last.f = ScenarioFilter /\ last.dir = "filter-target") =>
              /\ last.store = s4 =>
                    /\ last.res = FALSE
                    /\ DistinctScore(last.f.labels, last.f.stores, s4) > last.f.safeScore
              /\ last.store = s5 => last.res = TRUE

\* C17 as amended: the filter accepts s4@zoneB and s5@zoneA alike, the score
\* of each being equal to the safe score; the general rule stands.
C17_DistinctScoreFilterAmended ==
    DistinctFilterCalled =>
        /\ DistinctFilterRule
        /\ (last.f = ScenarioFilter /\ last.dir = "filter-target") =>
              \A candidate \in {s4, s5} :
                  last.store = candidate =>
                      /\ last.res = FALSE
                      /\ DistinctScore(last.f.labels, last.f.stores, candidate) = last.f.safeScore

\* FilterTarget of the filter of the scenario has accepted s5@zoneA.
C17_Witness ==
    /\ DistinctFilterCalled
    /\ last.f = ScenarioFilter
    /\ last.dir = "filter-target"
    /\ last.store = s5
    /\ last.res = FALSE

\* C18: healthFilter rejects a store, as source and as target alike, if and
\* only if the store is busy or its down time is strictly greater than
\* opt.maxStoreDownTime: a busy store is rejected whatever its down time, a
\* store down for maxStoreDownTime + 1 is rejected in both directions, and a
\* store that is not busy and down for exactly maxStoreDownTime is accepted.
C18_HealthFilter ==
    (op = "Filter" /\ last.calls >= 1 /\ Type(last.f) = "health-filter") =>
        /\ last.res = (last.store.busy \/ last.store.downTime > last.opt.maxStoreDownTime)
        /\ last.store.busy => last.res = TRUE
        /\ last.store.downTime = last.opt.maxStoreDownTime + 1 => last.res = TRUE
        /\ (~last.store.busy /\ last.store.downTime = last.opt.maxStoreDownTime) =>
              last.res = FALSE

\* FilterTarget of the health filter has accepted a store that is not busy
\* and has been down for exactly maxStoreDownTime.
C18_Witness ==
    /\ op = "Filter"
    /\ last.calls >= 1
    /\ Type(last.f) = "health-filter"
    /\ last.dir = "filter-target"
    /\ ~last.store.busy
    /\ last.store.downTime = last.opt.maxStoreDownTime
    /\ last.res = FALSE

\* C19: SetRegion(R) leaves every resident region of another id whose key
\* range does not intersect R's as it is: in the tree, in the global map and
\* in every per-store collection; a store on which R has no peer and whose
\* collections hold only such regions keeps its counts and sizes.  Stated of
\* every call SetRegion(R) that can follow a reachable state.
C19_SetRegionFrame ==
    ~index.panicked =>
        \A R \in RegionArgs :
            LET x == SetRegion(index, R).idx
                kept == {r \in Resident(index) : r.id # R.id /\ ~Overlap(r, R)}
                keptIds == {r.id : r \in kept}
                buckets(y) == <<y.leaders, y.followers, y.learners, y.pendingPeers>>
            IN /\ \A r \in kept :
                    /\ MapGet(x.regions, r.id) = {r}
                    /\ Meta(r) \in index.tree => Meta(r) \in x.tree
                    /\ \A s \in Stores : \A b \in 1 .. 4 :
                          StoreGet(buckets(x)[b], s, r.id) = StoreGet(buckets(index)[b], s, r.id)
               /\ \A s \in Stores \ {p.storeId : p \in R.peers} :
                    (\A b \in 1 .. 4 : StoreIds(buckets(index)[b], s) \subseteq keptIds) =>
                        \A b \in 1 .. 4 :
                            StoreSizeLen(buckets(x)[b], s) = StoreSizeLen(buckets(index)[b], s)

\* C21: GetRegionStats(startKey, endKey) with a non-empty endKey observes
\* exactly the resident regions from startKey whose key range lies inside
\* [startKey, endKey), the one whose endKey equals endKey included; with an
\* empty endKey it observes every region from startKey on.  Count is the
\* number of the observed regions, EmptyCount the number of those with
\* ApproximateSize <= 1.
Inside(startKey, endKey) ==
    {it \in index.tree :
        /\ it.startKey >= startKey
        /\ endKey # 0 => (it.endKey # 0 /\ it.endKey <= endKey)}

C21_RegionStatsInsideRange ==
    op = "GetRegionStats" =>
        LET observed == Inside(got.arg[1], got.arg[2])
        IN /\ got.stats.Count = Cardinality(observed)
           /\ got.stats.EmptyCount =
                 Cardinality({it \in observed :
                     \E r \in GetRegion(index, it.id) :
                         r.ApproximateSize <= EmptyRegionApproximateSize})

\* C22: AddRegion called directly with a region R whose id is resident with
\* the same epoch and the same or an overlapping key range leaves R resident
\* in both the tree and the global map: afterwards TreeLength() = Length()
\* and SearchRegion on every key of R's range returns R.
C22_AddRegionOnResidentId ==
    ~index.panicked =>
        \A R \in RegionArgs :
            (\E o \in MapGet(index.regions, R.id) :
                o.epoch = R.epoch /\ Overlap(Meta(o), Meta(R))) =>
                LET x == AddRegion(index, R).idx
                IN ~x.panicked =>
                      /\ TreeLength(x) = Length(x)
                      /\ \A k \in Keys :
                            (R.startKey <= k /\ BeforeEnd(k, R.endKey)) =>
                                SearchRegion(x, k) = {Clone(R)}

\* C23: every regionMap operation (Len, Get, Put, Delete, RandomRegion,
\* TotalSize) tolerates a nil receiver: a reader returns the zero value or
\* absent, a mutator is a no-op, and none of them panics.
C23_NilReceiverTolerated ==
    [][(IsNil(rm) /\ op' \in {"Len", "Get", "Put", "Delete", "RandomRegion", "TotalSize"}) =>
          /\ ~got'.panics
          /\ rm' = rm
          /\ op' \in {"Len", "TotalSize"} => got'.out = 0
          /\ op' \in {"Get", "RandomRegion"} => got'.out = {}]_vars

\* C24: for every store s, in every reachable state, the leader, follower
\* and learner region sizes of s are each the sum of ApproximateSize over the
\* regions the respective collection holds for s (0 when it holds none or
\* was never created), GetStoreRegionSize(s) is the sum of the three and
\* GetStoreRegionCount(s) the sum of the three counts; so it is after
\* SetRegion replaced a region by a version of another size or moved its
\* leader to another store.
SizeIn(bucket, s) ==
    IF s \in DOMAIN bucket
    THEN SumOver([i \in DOMAIN bucket[s].m |-> bucket[s].m[i].region.ApproximateSize],
                 DOMAIN bucket[s].m)
    ELSE 0

Observable(x) ==
    [Length |-> Length(x),
     TreeLength |-> TreeLength(x),
     GetRegion |-> [id \in Ids |-> GetRegion(x, id)],
     SearchRegion |-> [k \in Keys |-> SearchRegion(x, k)],
     TotalSize |-> MapTotalSize(x.regions),
     counts |-> [s \in Stores |->
                    <<GetStoreLeaderCount(x, s), GetStoreFollowerCount(x, s),
                      GetStoreLearnerCount(x, s), GetStorePendingPeerCount(x, s),
                      GetStoreRegionCount(x, s)>>],
     sizes |-> [s \in Stores |->
                    <<GetStoreLeaderRegionSize(x, s), GetStoreFollowerRegionSize(x, s),
                      GetStoreLearnerRegionSize(x, s), GetStoreRegionSize(x, s)>>]]

C25_SetRegionIdempotent ==
    ~index.panicked =>
        \A R \in RegionArgs :
            LET first == SetRegion(index, R)
                second == SetRegion(first.idx, R)
            IN ~first.idx.panicked =>
                  /\ ~second.idx.panicked
                  /\ second.ret = <<>>
                  /\ Observable(second.idx) = Observable(first.idx)

\* C26: pendingPeerCountFilter rejects a store, as source and as target
\* alike, if and only if opt.maxPendingPeerCount > 0 and
\* store.pendingPeerCount > opt.maxPendingPeerCount, for every value of the
\* unsigned threshold, those at and above half its range included; a
\* threshold of 0 disables the filter.
C26_PendingPeerCountFilter ==
    (op = "Filter" /\ last.calls >= 1 /\ Type(last.f) = "pending-peer-filter") =>
        last.res = (/\ last.opt.maxPendingPeerCount > 0
                    /\ last.store.pendingPeerCount > last.opt.maxPendingPeerCount)

\* C27: RegionFromHeartbeat sets ApproximateSize to
\* max(1, floor(approximateSize / MB)) for every byte count an unsigned
\* integer holds: never below 1, never negative; MB - 1 bytes and 0 bytes
\* give 1, 2 * MB bytes give 2.
C27_SizeFromHeartbeat ==
    op = "Heartbeat" =>
        \A h \in got.res[1] :
            LET bytes == got.arg.approximateSize
                MB == 2 ^ MBBits
                size == h.val.ApproximateSize
            IN /\ size = (IF bytes \div MB >= 1 THEN bytes \div MB ELSE 1)
               /\ size >= 1
               /\ bytes \in {0, MB - 1} => size = 1
               /\ bytes = 2 * MB => size = 2
               /\ ~index.panicked => MapGet(index.regions, h.val.id) = {h.val}

\* A heartbeat of MB - 1 bytes has been stored with size 1, after one of
\* the greatest byte count.
C27_Witness ==
    /\ op = "Heartbeat"
    /\ nops = MaxBeats
    /\ got.arg.approximateSize = 2 ^ MBBits - 1
    /\ \E h \in got.res[1] : h.val.ApproximateSize = 1
    /\ \E id \in Ids : \E r \in MapGet(index.regions, id) :
          r.ApproximateSize = (2 ^ IntBits - 1) \div 2 ^ MBBits

====
